---- MODULE Spec2Model ----
(***************************************************************************)
(* Model of invenio_logging/sentry.py: the InvenioLoggingSentry extension. *)
(*                                                                         *)
(* The application object, the werkzeug logger, the sentry_sdk client and  *)
(* flask.g are the state.  init_app is one action (with init_config,       *)
(* install_handler and install_sentry_sdk_handler folded into it as the    *)
(* operators it calls); add_request_id_sentry_python and the template      *)
(* context processor sentry_app_context are the request-time actions.      *)
(* Python values are written as string tokens: "None" is None, "<missing>" *)
(* is an absent dictionary key, "<unset>" is an absent attribute of g.     *)
(***************************************************************************)
EXTENDS Integers, Sequences, FiniteSets, TLC

VARIABLES
    config,              \* app.config, restricted to the keys sentry.py reads
    debug,               \* app.debug
    sdk,                 \* TRUE iff `import sentry_sdk` succeeded
    warnings,            \* number of app.logger.warning calls
    extensions,          \* keys of app.extensions
    context_processors,  \* functions registered with app.context_processor
    werkzeug,            \* logging.getLogger("werkzeug"): level and handlers
    sdk_inits,           \* the calls made to sentry_sdk.init, in order
    scope_level,         \* scope.level of the client
    calls,               \* number of init_app calls made so far
    outcome,             \* how the last init_app call ended
    g,                   \* flask.g of the current application context
    last_event_id,       \* what sentry_sdk.last_event_id() returns now
    hook_stored,         \* id the before-send hook last stored in this request
    last                 \* the last request-time call and what it observed

vars == << config, debug, sdk, warnings, extensions, context_processors,
           werkzeug, sdk_inits, scope_level, calls, outcome, g,
           last_event_id, hook_stored, last >>

appVars == << config, debug, sdk, warnings, extensions, context_processors,
              werkzeug, sdk_inits, scope_level, calls, outcome >>

reqVars == << g, last_event_id, hook_stored, last >>

----------------------------------------------------------------------------
(* Bounds *)

MaxInitCalls == 2

MaxTags == 2

----------------------------------------------------------------------------
(* Values *)

Missing == "<missing>"

Unset == "<unset>"

None == "None"

Truthy(v) == v \notin {"False", "None", "", "{}", Missing}

ValidDsn == "https://key@sentry.example/1"

MalformedDsn == "malformed"

DsnValues == {Missing, None, "", ValidDsn, MalformedDsn}

LevelValues == {Missing, "ERROR", "bogus"}

KwargsValues == {"{}", "{'release': '1.0'}"}

EventIds == {"e1", "e2"}

RequestIds == {"r1"}

TagPool == { <<"env", "prod">>, <<"request_id", "r0">> }

\* logging's level table, as getattr(logging, name) sees it.
LevelTable ==
    [n \in {"DEBUG", "INFO", "WARNING", "ERROR", "CRITICAL"} |->
        CASE n = "DEBUG"    -> 10
          [] n = "INFO"     -> 20
          [] n = "WARNING"  -> 30
          [] n = "ERROR"    -> 40
          [] n = "CRITICAL" -> 50]

\* A logger nobody configured: level NOTSET (0), no handlers.
FreshLogger == [level |-> 0, handlers |-> << >>]

\* scope.level before anything assigned it.
ScopeUnset == [set |-> FALSE, level |-> 0]

\* invenio_logging/config.py: the defaults init_config merges.
config_defaults ==
    [SENTRY_DSN                 |-> None,
     LOGGING_SENTRY_LEVEL       |-> "WARNING",
     LOGGING_SENTRY_PYWARNINGS  |-> "False",
     LOGGING_SENTRY_CELERY      |-> "False",
     LOGGING_SENTRY_SQLALCHEMY  |-> "False",
     LOGGING_SENTRY_REDIS       |-> "False",
     LOGGING_SENTRY_INIT_KWARGS |-> "{}"]

logging_exclusions_list ==
    << "gunicorn", "south", "sentry.errors", "django.request", "dill",
       "py.warnings" >>

ExtensionName == "invenio-logging-sentry"

----------------------------------------------------------------------------
(* init_app and the methods it calls, as functions of the application      *)
(* "world" w: a record of the fields init_app reads and writes.            *)

\* init_config: app.config.setdefault(k, default) for every key.
init_config(cfg) ==
    [k \in DOMAIN cfg |-> IF cfg[k] = Missing THEN config_defaults[k] ELSE cfg[k]]

DsnNeverUnset(cfg) == FALSE

\* `app.config["SENTRY_DSN"] is None`
DsnUnset(cfg) == cfg.SENTRY_DSN = None

SdkMissingNever(present) == FALSE

\* `sentry_sdk is None`
SdkMissing(present) == ~present

LogWarningTwice(n) == n + 2

\* app.logger.warning(...)
LogWarning(n) == n + 1

IntegrationsUnordered(cfg) ==
    << "FlaskIntegration" >>
    \o (IF Truthy(cfg.LOGGING_SENTRY_REDIS) THEN << "RedisIntegration" >> ELSE << >>)
    \o (IF Truthy(cfg.LOGGING_SENTRY_CELERY) THEN << "CeleryIntegration" >> ELSE << >>)
    \o (IF Truthy(cfg.LOGGING_SENTRY_SQLALCHEMY) THEN << "SqlalchemyIntegration" >> ELSE << >>)

\* The integration list install_sentry_sdk_handler assembles.
Integrations(cfg) ==
    << "FlaskIntegration" >>
    \o (IF Truthy(cfg.LOGGING_SENTRY_CELERY) THEN << "CeleryIntegration" >> ELSE << >>)
    \o (IF Truthy(cfg.LOGGING_SENTRY_SQLALCHEMY) THEN << "SqlalchemyIntegration" >> ELSE << >>)
    \o (IF Truthy(cfg.LOGGING_SENTRY_REDIS) THEN << "RedisIntegration" >> ELSE << >>)

\* sentry_sdk.init raises on a DSN it cannot parse; None and "" disable sending.
SdkInitFails(dsn) == dsn = MalformedDsn

install_sentry_sdk_handler_scope_first(w, exclusions, level) ==
    LET init_kwargs == IF Truthy(w.config.LOGGING_SENTRY_INIT_KWARGS)
                       THEN w.config.LOGGING_SENTRY_INIT_KWARGS ELSE "{}"
        call == [dsn            |-> w.config.SENTRY_DSN,
                 in_app_exclude |-> exclusions,
                 integrations   |-> Integrations(w.config),
                 before_send    |-> "add_request_id_sentry_python",
                 kwargs         |-> init_kwargs]
        w1 == [w EXCEPT !.scope_level = [set |-> TRUE, level |-> level],
                        !.sdk_inits = Append(@, call)]
    IN  IF SdkInitFails(call.dsn)
        THEN [w1 EXCEPT !.exc = "InitError"]
        ELSE w1

\* install_sentry_sdk_handler: build the arguments, call sentry_sdk.init,
\* then set scope.level.  A failing init raises before the scope is touched.
install_sentry_sdk_handler(w, exclusions, level) ==
    LET init_kwargs == IF Truthy(w.config.LOGGING_SENTRY_INIT_KWARGS)
                       THEN w.config.LOGGING_SENTRY_INIT_KWARGS ELSE "{}"
        call == [dsn            |-> w.config.SENTRY_DSN,
                 in_app_exclude |-> exclusions,
                 integrations   |-> Integrations(w.config),
                 before_send    |-> "add_request_id_sentry_python",
                 kwargs         |-> init_kwargs]
        w1 == [w EXCEPT !.sdk_inits = Append(@, call)]
    IN  IF SdkInitFails(call.dsn)
        THEN [w1 EXCEPT !.exc = "InitError"]
        ELSE [w1 EXCEPT !.scope_level = [set |-> TRUE, level |-> level]]

WerkzeugConsoleAlways(logger, dbg) ==
    [level |-> LevelTable["INFO"],
     handlers |-> Append(logger.handlers, "StreamHandler")]

\* The `if app.debug:` block of install_handler.
WerkzeugConsole(logger, dbg) ==
    IF dbg
    THEN [level |-> LevelTable["INFO"],
          handlers |-> Append(logger.handlers, "StreamHandler")]
    ELSE logger

\* install_handler
install_handler(w) ==
    IF w.config.LOGGING_SENTRY_LEVEL \notin DOMAIN LevelTable
    THEN [w EXCEPT !.exc = "AttributeError"]
    ELSE LET level == LevelTable[w.config.LOGGING_SENTRY_LEVEL]
             exclusions == IF ~Truthy(w.config.LOGGING_SENTRY_PYWARNINGS)
                           THEN logging_exclusions_list ELSE << >>
             w1 == install_sentry_sdk_handler(w, exclusions, level)
         IN  IF w1.exc # "none"
             THEN w1
             ELSE [w1 EXCEPT !.werkzeug = WerkzeugConsole(@, w.debug)]

\* app.context_processor(sentry_app_context)
RegisterContextProcessor(cps) == Append(cps, "sentry_app_context")

\* init_app
init_app(w0) ==
    LET w == [w0 EXCEPT !.config = init_config(@), !.exc = "none"]
    IN  IF DsnUnset(w.config)
        THEN [w EXCEPT !.ret = "not configured"]
        ELSE IF SdkMissing(w.sdk)
        THEN [w EXCEPT !.warnings = LogWarning(@), !.ret = "sdk missing"]
        ELSE LET w1 == install_handler(w)
             IN  IF w1.exc # "none"
                 THEN [w1 EXCEPT !.ret = w1.exc]
                 ELSE [w1 EXCEPT
                         !.extensions = @ \cup {ExtensionName},
                         !.context_processors = RegisterContextProcessor(@),
                         !.ret = "installed"]

World ==
    [config |-> config, debug |-> debug, sdk |-> sdk, warnings |-> warnings,
     extensions |-> extensions, context_processors |-> context_processors,
     werkzeug |-> werkzeug, sdk_inits |-> sdk_inits,
     scope_level |-> scope_level, exc |-> "none", ret |-> outcome]

----------------------------------------------------------------------------
(* Request-time functions *)

NoContext == [active |-> FALSE, request_id |-> Unset, sentry_event_id |-> Unset]

\* `g and hasattr(g, "request_id")`: an unbound proxy is falsy.
HasRequestId(gl) == gl.active /\ gl.request_id # Unset

\* event.get("tags") or []
TagsOrEmpty(event) == IF event.tags.kind = "list" THEN event.tags.items ELSE << >>

TagEventPrepend(event, gl) ==
    [event EXCEPT !.tags =
        [kind |-> "list",
         items |-> << <<"request_id", gl.request_id>> >> \o TagsOrEmpty(event)]]

\* tags.append(["request_id", g.request_id]); event["tags"] = tags
TagEvent(event, gl) ==
    [event EXCEPT !.tags =
        [kind |-> "list",
         items |-> Append(TagsOrEmpty(event), <<"request_id", gl.request_id>>)]]

ShouldStoreAlways(event_id) == TRUE

\* `event_id is not None`
ShouldStore(event_id) == event_id # None

\* add_request_id_sentry_python(event, hint), given g and the client's
\* last_event_id().  Assigning to g without an application context raises.
add_request_id_sentry_python(event, gl, event_id) ==
    LET ev == IF HasRequestId(gl) THEN TagEvent(event, gl) ELSE event
    IN  IF ShouldStore(event_id)
        THEN IF gl.active
             THEN [event |-> ev, g |-> [gl EXCEPT !.sentry_event_id = event_id],
                   raised |-> FALSE, stored |-> TRUE]
             ELSE [event |-> ev, g |-> gl, raised |-> TRUE, stored |-> FALSE]
        ELSE [event |-> ev, g |-> gl, raised |-> FALSE, stored |-> FALSE]

\* sentry_app_context()
sentry_app_context(gl, event_id) ==
    [g |-> [gl EXCEPT !.sentry_event_id = event_id],
     value |-> event_id]

NoCall ==
    [op |-> "none", ctx |-> FALSE, request_id |-> Unset, reported |-> None,
     marker_before |-> Unset, marker_after |-> Unset, stored |-> Unset,
     raised |-> FALSE, event_in |-> [message |-> "", tags |-> [kind |-> "missing", items |-> << >>]],
     event_out |-> [message |-> "", tags |-> [kind |-> "missing", items |-> << >>]],
     value |-> Unset]

RECURSIVE SeqsUpTo(_, _)
SeqsUpTo(S, n) ==
    IF n = 0 THEN { << >> }
    ELSE LET shorter == SeqsUpTo(S, n - 1)
         IN  shorter \cup { Append(s, x) : s \in shorter, x \in S }

Events ==
    { [message |-> "boom", tags |-> t] :
        t \in { [kind |-> "missing", items |-> << >>],
                [kind |-> "null", items |-> << >>] }
              \cup { [kind |-> "list", items |-> s] : s \in SeqsUpTo(TagPool, MaxTags) } }

----------------------------------------------------------------------------
(* Actions *)

InitApp ==
    /\ calls < MaxInitCalls
    /\ LET w == init_app(World)
       IN  /\ config' = w.config
           /\ warnings' = w.warnings
           /\ extensions' = w.extensions
           /\ context_processors' = w.context_processors
           /\ werkzeug' = w.werkzeug
           /\ sdk_inits' = w.sdk_inits
           /\ scope_level' = w.scope_level
           /\ outcome' = w.ret
    /\ calls' = calls + 1
    /\ UNCHANGED << debug, sdk >>
    /\ UNCHANGED reqVars

\* Flask pushes an application context with a fresh g.
PushContext ==
    /\ ~g.active
    /\ g' = [active |-> TRUE, request_id |-> Unset, sentry_event_id |-> Unset]
    /\ hook_stored' = Unset
    /\ last' = NoCall
    /\ UNCHANGED << last_event_id >>
    /\ UNCHANGED appVars

\* Flask pops the context at the end of the request.
PopContext ==
    /\ g.active
    /\ g' = NoContext
    /\ hook_stored' = Unset
    /\ last' = NoCall
    /\ UNCHANGED << last_event_id >>
    /\ UNCHANGED appVars

\* A request-id extension sets g.request_id.
SetRequestId ==
    /\ g.active
    /\ g.request_id = Unset
    /\ \E r \in RequestIds : g' = [g EXCEPT !.request_id = r]
    /\ UNCHANGED << last_event_id, hook_stored, last >>
    /\ UNCHANGED appVars

\* The client records a new last event id (or starts a fresh scope).
ClientReport ==
    /\ sdk_inits # << >>
    /\ outcome = "installed"
    /\ \E e \in EventIds \cup {None} :
          /\ e # last_event_id
          /\ last_event_id' = e
    /\ UNCHANGED << g, hook_stored, last >>
    /\ UNCHANGED appVars

\* The client calls before_send for an event it is about to transmit.
BeforeSend ==
    /\ sdk_inits # << >>
    /\ outcome = "installed"
    /\ \E event \in Events :
          LET r == add_request_id_sentry_python(event, g, last_event_id)
          IN  /\ g' = r.g
              /\ hook_stored' = IF r.stored THEN last_event_id ELSE hook_stored
              /\ last' = [op |-> "before_send", ctx |-> g.active,
                          request_id |-> g.request_id,
                          reported |-> last_event_id,
                          marker_before |-> g.sentry_event_id,
                          marker_after |-> r.g.sentry_event_id,
                          stored |-> hook_stored,
                          raised |-> r.raised,
                          event_in |-> event, event_out |-> r.event,
                          value |-> Unset]
    /\ UNCHANGED << last_event_id >>
    /\ UNCHANGED appVars

\* A template is rendered: Flask runs the registered context processors.
Render ==
    /\ g.active
    /\ context_processors # << >>
    /\ LET r == sentry_app_context(g, last_event_id)
       IN  /\ g' = r.g
           /\ last' = [NoCall EXCEPT !.op = "render", !.ctx = TRUE,
                          !.request_id = g.request_id,
                          !.reported = last_event_id,
                          !.marker_before = g.sentry_event_id,
                          !.marker_after = r.g.sentry_event_id,
                          !.stored = hook_stored,
                          !.value = r.value]
    /\ UNCHANGED << last_event_id, hook_stored >>
    /\ UNCHANGED appVars

----------------------------------------------------------------------------
(* Specifications *)

InitCommon ==
    /\ warnings = 0
    /\ extensions = {}
    /\ context_processors = << >>
    /\ werkzeug = FreshLogger
    /\ sdk_inits = << >>
    /\ scope_level = ScopeUnset
    /\ calls = 0
    /\ outcome = "not called"
    /\ g = NoContext
    /\ last_event_id = None
    /\ hook_stored = Unset
    /\ last = NoCall

\* Startup: any configuration, client library present or absent.
Init ==
    /\ config \in [SENTRY_DSN                 : DsnValues,
                   LOGGING_SENTRY_LEVEL       : LevelValues,
                   LOGGING_SENTRY_PYWARNINGS  : {Missing, "True"},
                   LOGGING_SENTRY_CELERY      : {Missing, "True", "False"},
                   LOGGING_SENTRY_SQLALCHEMY  : {"True", "False"},
                   LOGGING_SENTRY_REDIS       : {"True", "False"},
                   LOGGING_SENTRY_INIT_KWARGS : KwargsValues]
    /\ debug \in BOOLEAN
    /\ sdk \in BOOLEAN
    /\ InitCommon

Next == InitApp

Spec == Init /\ [][Next]_vars

\* Request time: an application configured for Sentry with the client installed.
InitReq ==
    /\ config \in [SENTRY_DSN                 : {ValidDsn},
                   LOGGING_SENTRY_LEVEL       : {"ERROR"},
                   LOGGING_SENTRY_PYWARNINGS  : {Missing},
                   LOGGING_SENTRY_CELERY      : {"True"},
                   LOGGING_SENTRY_SQLALCHEMY  : {"False"},
                   LOGGING_SENTRY_REDIS       : {"False"},
                   LOGGING_SENTRY_INIT_KWARGS : {"{}"}]
    /\ debug = FALSE
    /\ sdk = TRUE
    /\ InitCommon

NextReq ==
    \/ InitApp
    \/ PushContext
    \/ PopContext
    \/ SetRequestId
    \/ ClientReport
    \/ BeforeSend
    \/ Render

SpecReq == InitReq /\ [][NextReq]_vars

TypeOK ==
    /\ calls \in 0..MaxInitCalls
    /\ warnings \in Nat
    /\ g.sentry_event_id \in EventIds \cup {None, Unset}
    /\ last_event_id \in EventIds \cup {None}

----------------------------------------------------------------------------
(* Properties of startup (specification Spec) *)

Untouched ==
    /\ werkzeug = FreshLogger
    /\ extensions = {}
    /\ context_processors = << >>

NothingInstalled ==
    /\ Untouched
    /\ sdk_inits = << >>
    /\ scope_level = ScopeUnset

\* C1 as stated: over any sequence of init_app calls the client init, the
\* werkzeug console handler and the hooks are installed at most once, and only
\* when SENTRY_DSN is configured and the client library is importable.
C1_AtMostOnceEver ==
    /\ Len(sdk_inits) <= 1
    /\ Len(werkzeug.handlers) <= 1
    /\ Len(context_processors) <= 1
    /\ Cardinality(extensions) <= 1
    /\ (calls > 0 /\ (config.SENTRY_DSN = None \/ ~sdk)) => Untouched

\* C1 amended: every single init_app call installs at most once (one client
\* init, at most one werkzeug handler, one context processor, the one
\* extension key), it installs only when SENTRY_DSN is not None after the
\* merge and the client library is importable, and otherwise leaves the
\* logger, the extension registry and the context processors untouched.
C1_AtMostOncePerCall ==
    [][ /\ Len(sdk_inits') - Len(sdk_inits) <= 1
        /\ Len(werkzeug'.handlers) - Len(werkzeug.handlers) <= 1
        /\ Len(context_processors') - Len(context_processors) <= 1
        /\ Cardinality(extensions') <= 1
        /\ (config'.SENTRY_DSN = None \/ ~sdk)
              => /\ UNCHANGED << werkzeug, extensions, context_processors, sdk_inits >>
                 /\ Untouched
      ]_appVars

C1_Witness ==
    /\ calls = 2
    /\ Len(sdk_inits) = 2
    /\ Len(context_processors) = 2
    /\ Len(werkzeug.handlers) = 2
    /\ extensions = {ExtensionName}

\* C2 as stated: with SENTRY_DSN null or empty after the merge, init_app is a
\* pure no-op (no client init, no handler, no extension, no context
\* processor, no warning).
C2_NullOrEmptyDsnNoOp ==
    (calls > 0 /\ config.SENTRY_DSN \in {None, ""})
        => (NothingInstalled /\ warnings = 0)

\* C2 amended: with SENTRY_DSN None after the merge, init_app is a pure
\* no-op, whatever the other settings and whether or not the client library
\* is installed.
C2_NoneDsnNoOp ==
    (calls > 0 /\ config.SENTRY_DSN = None)
        => (NothingInstalled /\ warnings = 0 /\ outcome = "not configured")

C2_Witness ==
    /\ calls > 0
    /\ config.SENTRY_DSN = None
    /\ sdk
    /\ debug
    /\ config.LOGGING_SENTRY_LEVEL = "bogus"
    /\ config.LOGGING_SENTRY_CELERY = "True"

\* C3 as stated: with the client library absent, init_app logs exactly one
\* warning and does nothing else, whatever SENTRY_DSN is.
C3_AlwaysOneWarning ==
    (calls > 0 /\ ~sdk) => (warnings = calls /\ NothingInstalled)

\* C3 amended: with the client library absent, init_app logs exactly one
\* warning when SENTRY_DSN is not None and no warning when it is None; in
\* both cases it does nothing else.
C3_OneWarningIfDsnSet ==
    (calls > 0 /\ ~sdk)
        => /\ warnings = (IF config.SENTRY_DSN = None THEN 0 ELSE calls)
           /\ NothingInstalled

C3_Witness ==
    /\ calls = 1
    /\ ~sdk
    /\ config.SENTRY_DSN = ValidDsn
    /\ warnings = 1
    /\ outcome = "sdk missing"

Rank(i) ==
    CASE i = "FlaskIntegration"      -> 0
      [] i = "CeleryIntegration"     -> 1
      [] i = "SqlalchemyIntegration" -> 2
      [] i = "RedisIntegration"      -> 3

Toggled ==
    {"FlaskIntegration"}
    \cup (IF config.LOGGING_SENTRY_CELERY = "True" THEN {"CeleryIntegration"} ELSE {})
    \cup (IF config.LOGGING_SENTRY_SQLALCHEMY = "True" THEN {"SqlalchemyIntegration"} ELSE {})
    \cup (IF config.LOGGING_SENTRY_REDIS = "True" THEN {"RedisIntegration"} ELSE {})

\* C8: the integration list of every client init starts with the web
\* framework integration, holds exactly the integrations whose toggle is
\* true, each once, in the order task queue, database, cache.
C8_IntegrationList ==
    \A n \in 1..Len(sdk_inits) :
        LET l == sdk_inits[n].integrations
        IN  /\ l[1] = "FlaskIntegration"
            /\ { l[i] : i \in 1..Len(l) } = Toggled
            /\ \A i, j \in 1..Len(l) : i < j => Rank(l[i]) < Rank(l[j])
            /\ (/\ config.LOGGING_SENTRY_CELERY = "True"
                /\ config.LOGGING_SENTRY_SQLALCHEMY = "False"
                /\ config.LOGGING_SENTRY_REDIS = "True")
                  => l = << "FlaskIntegration", "CeleryIntegration", "RedisIntegration" >>

C8_Witness ==
    /\ sdk_inits # << >>
    /\ config.LOGGING_SENTRY_CELERY = "True"
    /\ config.LOGGING_SENTRY_SQLALCHEMY = "False"
    /\ config.LOGGING_SENTRY_REDIS = "True"
    /\ Len(sdk_inits[1].integrations) = 3

\* C9: after init_app completed with the client installed, in debug mode the
\* werkzeug logger has a console handler and level INFO; outside debug mode
\* it has no handler added and its level is unchanged.
C9_WerkzeugConsole ==
    outcome = "installed"
        => IF debug
           THEN /\ Len(werkzeug.handlers) >= 1
                /\ \E i \in 1..Len(werkzeug.handlers) : werkzeug.handlers[i] = "StreamHandler"
                /\ werkzeug.level = 20
           ELSE werkzeug = FreshLogger

C9_Witness ==
    /\ outcome = "installed"
    /\ debug
    /\ config.SENTRY_DSN = ValidDsn
    /\ werkzeug.level = 20
    /\ Len(werkzeug.handlers) = 1

Failed == outcome \in {"AttributeError", "InitError"}

----------------------------------------------------------------------------
(* Properties of the request-time callbacks (specification SpecReq) *)

\* C4 as stated: once before_send stored id X in the current request, a
\* later template render exposes X and leaves the marker equal to X,
\* whatever last_event_id() returns at render time.
C4_RenderReadsMarker ==
    (last.op = "render" /\ last.stored # Unset)
        => /\ last.value = last.stored
           /\ last.marker_after = last.stored

\* C5 as stated: after the hook ran inside a request, g.sentry_event_id
\* equals what last_event_id() returned during the hook, None included.
C5_MarkerEqualsReported ==
    (last.op = "before_send" /\ last.ctx)
        => last.marker_after = last.reported

\* C5 amended: after the hook ran inside a request, g.sentry_event_id equals
\* what last_event_id() returned during the hook when that was not None, and
\* is left as it was (an earlier id, or not set) when it was None.
C5_MarkerFollowsNonNone ==
    (last.op = "before_send" /\ last.ctx)
        => /\ ~last.raised
           /\ last.reported # None => last.marker_after = last.reported
           /\ last.reported = None => last.marker_after = last.marker_before
           /\ g.sentry_event_id = last.marker_after

C5_Witness ==
    /\ last.op = "before_send"
    /\ last.ctx
    /\ last.marker_before = "e1"
    /\ last.reported = None

PreviousTags(event) ==
    IF event.tags.kind \in {"missing", "null"} THEN << >> ELSE event.tags.items

\* C6: with g.request_id present the event's tags become the previous tags
\* (none if missing or null) followed by the one pair ["request_id", id];
\* without it the tags are untouched, a missing key stays missing.
C6_RequestIdTag ==
    last.op = "before_send"
        => IF last.ctx /\ last.request_id # Unset
           THEN LET old == PreviousTags(last.event_in)
                    new == last.event_out.tags
                IN  /\ new.kind = "list"
                    /\ Len(new.items) = Len(old) + 1
                    /\ \A i \in 1..Len(old) : new.items[i] = old[i]
                    /\ new.items[Len(new.items)] = << "request_id", last.request_id >>
           ELSE last.event_out.tags = last.event_in.tags

C6_Witness ==
    /\ last.op = "before_send"
    /\ last.ctx
    /\ last.request_id = "r1"
    /\ last.event_in.tags.kind = "list"
    /\ Len(last.event_in.tags.items) = 2
    /\ Len(last.event_out.tags.items) = 3

\* C7 as stated: the hook never raises and always returns the event, in
\* every state of g, with or without an application context.
C7_HookNeverRaises ==
    last.op = "before_send"
        => /\ ~last.raised
           /\ last.event_out.message = last.event_in.message

====
